---- MODULE Spec2Model ----
(***************************************************************************)
(* DetectTor (src/src/index.ts, the persistence-based revision that starts *)
(* at line 176): the Persistence Stores, the list Fetcher                  *)
(* (getIpListOnline), the process-wide memo (cachedIpList, cacheTimestamp) *)
(* and the public operations getIpList, isIpTor and amIUsingTor.           *)
(*                                                                         *)
(* A call is a little process: it moves from one await of the source to    *)
(* the next.  Under Spec the calls are awaited one at a time and the       *)
(* environment (the clock, direct writes to a Store, loss of a file) acts  *)
(* between calls.                                                          *)
(***************************************************************************)
EXTENDS Integers, Sequences, FiniteSets, TLC

(***************************************************************************)
(* Bounds of the model.                                                    *)
(***************************************************************************)
\* how many events one behaviour has: calls of the public operations, clock
\* advances, direct Store writes and file losses
MaxEvents == 3
\* calls begun and clock steps in a behaviour of concurrent calls
MaxConcEvents == 3
\* how many lines a response text with malformed lines has
MaxLines == 2
\* how many Store methods and Set operations a direct user of a Store runs
MaxUses == 5

(***************************************************************************)
(* Program constants.                                                      *)
(***************************************************************************)
\* const CACHE_TTL = 60000
CACHE_TTL == 60000
\* 24 * 60 * 60 * 1000 in getIpList
DAY == 24 * 60 * 60 * 1000

\* Date.now() when the behaviour starts: later than one day after the epoch,
\* as every real clock is, so that a timestamp of 0 is older than a day.
StartTime == 3 * DAY
\* the clock advances by the memo's TTL or by just more than a day
TickSizes == {CACHE_TTL, DAY + 1}
\* the time that passes while a call waits at an await, in ms
PassSizes == {1}


\* the Store instances: one FileSystemPersistence, one InMemoryPersistence
Stores == {"fs", "mem"}
Kind(s) == IF s = "fs" THEN "FileSystemPersistence" ELSE "InMemoryPersistence"

\* the concurrent callers; Spec runs the first alone
Callers == {"p1", "p2"}
SeqCallers == {"p1"}

VARIABLES
    now,             \* Date.now()
    events,          \* calls begun and environment events so far
    persistence,     \* Store instance -> its record (files or fields)
    cachedIpList,    \* the memo: <<>> is null, <<X>> holds the set X
    cacheTimestamp,  \* when the memo was stored
    call,            \* caller -> the call it is running
    lastCall,        \* <<>>, or the call that finished last: a refresh
                     \* that just finished, or a call with update=false
                     \* since which no Store was written
    validatedUrls    \* the Map of validated URLs: URL -> valid or not

vars == <<now, events, persistence, cachedIpList, cacheTimestamp, call,
          lastCall, validatedUrls>>

(***************************************************************************)
(* Completion of an awaited promise: a value, or a thrown error.  A value  *)
(* that is a Set object is new (Ok), or is an object that the other side   *)
(* of the call holds as well (Same).                                       *)
(***************************************************************************)
Ok(v) == [thrown |-> FALSE, val |-> v, alias |-> FALSE]
Same(v) == [thrown |-> FALSE, val |-> v, alias |-> TRUE]
Thrown == [thrown |-> TRUE]

(***************************************************************************)
(* Text.  A string is the sequence of its characters, so that split, trim  *)
(* and parseInt are computed as JavaScript computes them.                  *)
(***************************************************************************)
IsSpace(ch) == ch \in {" ", "\t", "\r", "\n"}
IsDigit(ch) == ch \in {"0", "1", "2", "3", "4", "5", "6", "7", "8", "9"}
DigitVal(ch) ==
    CASE ch = "0" -> 0 [] ch = "1" -> 1 [] ch = "2" -> 2 [] ch = "3" -> 3
      [] ch = "4" -> 4 [] ch = "5" -> 5 [] ch = "6" -> 6 [] ch = "7" -> 7
      [] ch = "8" -> 8 [] ch = "9" -> 9

RECURSIVE TrimStart(_)
TrimStart(s) ==
    IF s # <<>> /\ IsSpace(Head(s)) THEN TrimStart(Tail(s)) ELSE s

RECURSIVE TrimEnd(_)
TrimEnd(s) ==
    IF s # <<>> /\ IsSpace(s[Len(s)])
    THEN TrimEnd(SubSeq(s, 1, Len(s) - 1)) ELSE s

\* String.prototype.trim
Trim(s) == TrimEnd(TrimStart(s))

RECURSIVE SplitFrom(_, _, _)
SplitFrom(s, sep, cur) ==
    IF s = <<>> THEN <<cur>>
    ELSE IF Head(s) = sep THEN <<cur>> \o SplitFrom(Tail(s), sep, <<>>)
    ELSE SplitFrom(Tail(s), sep, Append(cur, Head(s)))

\* String.prototype.split with a one-character separator
Split(s, sep) == SplitFrom(s, sep, <<>>)

RECURSIVE DigitsValue(_, _, _)
\* the value of the longest prefix of digits; seen says one digit was read
DigitsValue(s, acc, seen) ==
    IF s # <<>> /\ IsDigit(Head(s))
    THEN DigitsValue(Tail(s), 10 * acc + DigitVal(Head(s)), TRUE)
    ELSE [nan |-> ~seen, num |-> acc]

\* parseInt(s, 10): leading white space and a sign are skipped, the digits
\* that follow are read and the rest is ignored; NaN when no digit follows
ParseInt(s) ==
    LET t == TrimStart(s)
        neg == t # <<>> /\ Head(t) = "-"
        u == IF t # <<>> /\ Head(t) \in {"-", "+"} THEN Tail(t) ELSE t
        r == DigitsValue(u, 0, FALSE)
    IN  IF neg THEN [r EXCEPT !.num = 0 - r.num] ELSE r

RECURSIVE Join(_, _)
\* Array.prototype.join
Join(ls, sep) ==
    IF ls = <<>> THEN <<>>
    ELSE IF Len(ls) = 1 THEN ls[1]
    ELSE ls[1] \o <<sep>> \o Join(Tail(ls), sep)

Range(f) == {f[i] : i \in DOMAIN f}

\* a JavaScript number that is an integer; parseInt yields one, or NaN
Num(n) == [nan |-> FALSE, num |-> n]

DigitChar(d) == <<"0", "1", "2", "3", "4", "5", "6", "7", "8", "9">>[d + 1]

RECURSIVE NatToString(_)
NatToString(n) ==
    IF n < 10 THEN <<DigitChar(n)>>
    ELSE Append(NatToString(n \div 10), DigitChar(n % 10))

\* Number.prototype.toString of an integer
NumberToString(n) == IF n < 0 THEN <<"-">> \o NatToString(0 - n) ELSE NatToString(n)

\* Array.from(set): the members in the order of their insertion, which a
\* set of the model does not record: any order
ArrayFrom(set) ==
    {a \in [1..Cardinality(set) -> set] : Range(a) = set}

(***************************************************************************)
(* The Stores.  The record of a FileSystemPersistence holds the texts of   *)
(* its two files, and listOk / tsOk say whether the file can be read; the  *)
(* record of an InMemoryPersistence holds its two fields.  A Set passed to *)
(* a Store is given as Array.from of it.                                   *)
(***************************************************************************)
NoFiles == [list |-> <<>>, ts |-> <<>>, listOk |-> FALSE, tsOk |-> FALSE]
NewInMemory == [ips |-> {}, ts |-> 0, listOk |-> TRUE, tsOk |-> TRUE]

\* a getIpList that keeps the empty lines of the file
FsGetIpList_KeepsEmptyLines(rec) ==
    IF rec.listOk
    THEN Ok({Trim(line) : line \in Range(Split(rec.list, "\n"))})
    ELSE Ok({})

\* FileSystemPersistence.getIpList: the lines of the file, trimmed, without
\* the empty ones; the catch turns a failed read into new Set()
FsGetIpList(rec) ==
    IF rec.listOk
    THEN Ok({ip \in {Trim(line) : line \in Range(Split(rec.list, "\n"))} :
                ip # <<>>})
    ELSE Ok({})

\* FileSystemPersistence.saveIpList: Array.from(ipList).join("\n") is
\* written; a failed write is logged and rethrown
FsSaveIpList(rec, ipList, ioOk) ==
    IF ioOk THEN Ok([rec EXCEPT !.list = Join(ipList, "\n"), !.listOk = TRUE])
    ELSE Thrown

\* a getTimestamp whose catch rethrows instead of returning 0
FsGetTimestamp_Rethrows(rec) ==
    IF rec.tsOk THEN Ok(ParseInt(rec.ts)) ELSE Thrown

\* FileSystemPersistence.getTimestamp: parseInt(data, 10) of the file's
\* text; the catch turns a failed read into 0
FsGetTimestamp(rec) ==
    IF rec.tsOk THEN Ok(ParseInt(rec.ts)) ELSE Ok(Num(0))

\* FileSystemPersistence.saveTimestamp: timestamp.toString() is written; a
\* failed write is logged and rethrown
FsSaveTimestamp(rec, timestamp, ioOk) ==
    IF ioOk THEN Ok([rec EXCEPT !.ts = NumberToString(timestamp), !.tsOk = TRUE])
    ELSE Thrown

\* a saveTimestamp that loses the value
MemSaveTimestamp_Lost(rec, timestamp) == Ok(rec)

\* a getIpList that returns this.ipList itself
MemGetIpList_SameObject(rec) == Same(rec.ips)

\* InMemoryPersistence.getIpList: new Set(this.ipList)
MemGetIpList(rec) == Ok(rec.ips)
\* InMemoryPersistence.saveIpList: this.ipList = new Set(ipList); the Store
\* holds a new object
MemSaveIpList(rec, ipList) == Ok([rec EXCEPT !.ips = Range(ipList)])
MemGetTimestamp(rec) == Ok(Num(rec.ts))
MemSaveTimestamp(rec, timestamp) == Ok([rec EXCEPT !.ts = timestamp])

\* a new Store of the kind of s after saveIpList(ipList) and
\* saveTimestamp(timestamp)
Holding(s, ipList, timestamp) ==
    IF Kind(s) = "FileSystemPersistence"
    THEN FsSaveTimestamp(FsSaveIpList(NoFiles, ipList, TRUE).val,
                         timestamp, TRUE).val
    ELSE MemSaveTimestamp(MemSaveIpList(NewInMemory, ipList).val,
                          timestamp).val

\* interface IpListPersistence: dispatch on the instance
getIpListOf(s) ==
    IF Kind(s) = "FileSystemPersistence" THEN FsGetIpList(persistence[s])
    ELSE MemGetIpList(persistence[s])
saveIpListOf(s, ipList, ioOk) ==
    IF Kind(s) = "FileSystemPersistence"
    THEN FsSaveIpList(persistence[s], ipList, ioOk)
    ELSE MemSaveIpList(persistence[s], ipList)
getTimestampOf(s) ==
    IF Kind(s) = "FileSystemPersistence" THEN FsGetTimestamp(persistence[s])
    ELSE MemGetTimestamp(persistence[s])
saveTimestampOf(s, timestamp, ioOk) ==
    IF Kind(s) = "FileSystemPersistence"
    THEN FsSaveTimestamp(persistence[s], timestamp, ioOk)
    ELSE MemSaveTimestamp(persistence[s], timestamp)

(***************************************************************************)
(* The List Fetcher: getIpListOnline up to the Store writes.               *)
(***************************************************************************)
\* a check of one line without the upper limit of a part
ValidIp_NoUpperLimit(ip) ==
    LET parts == Split(ip, ".")
    IN  /\ Len(parts) = 4
        /\ \A i \in 1..4 :
              LET num == ParseInt(parts[i])
              IN  ~(num.nan \/ num.num < 0)

\* the loop body's check of one trimmed line: four parts, each an integer
\* in 0..255 by parseInt
ValidIp(ip) ==
    LET parts == Split(ip, ".")
    IN  /\ Len(parts) = 4
        /\ \A i \in 1..4 :
              LET num == ParseInt(parts[i])
              IN  ~(num.nan \/ num.num < 0 \/ num.num > 255)

\* the set built from the response text
ParseIps(data) ==
    {ip \in {Trim(line) : line \in Range(Split(data, "\n"))} :
        ip # <<>> /\ ValidIp(ip)}

\* a Fetcher without the check for an empty validated set
FetchIpSet_NoEmptyCheck(outcome) ==
    IF outcome.kind # "ok" THEN Thrown ELSE Ok(ParseIps(outcome.data))

\* what response.text() and the parse yield:
\* the non-empty validated set, or a throw into the catch of getIpListOnline
FetchIpSet(outcome) ==
    IF outcome.kind # "ok" THEN Thrown
    ELSE LET ipSet == ParseIps(outcome.data)
         IN  IF ipSet = {} THEN Thrown ELSE Ok(ipSet)

\* texts
Ip1 == <<"1", ".", "1", ".", "1", ".", "1">>
Ip2 == <<"2", ".", "2", ".", "2", ".", "2">>
Bad999 == <<"9", "9", "9", ".", "1", ".", "1", ".", "1">>
Blank == <<>>

\* the addresses the publisher may list and callers may ask about
Addr == {Ip1, Ip2}
\* the lines a response may be made of, and the responses
BodyLines == {Ip1, Ip2, Bad999, Blank}
Bodies == {Join(ls, "\n") : ls \in UNION {[1..n -> BodyLines] : n \in 0..2}}
\* how await fetch(...) can end: the 10 s timer aborts it, the transport
\* fails, or the response arrives with a status that is no success or is one
ResponseOutcomes == {"timeout", "neterror", "httperror", "ok"}
\* how await response.text() can end: reading the body fails, or the body
\* arrives
FetchOutcomes ==
    {[kind |-> "bodyerror", data |-> <<>>]}
    \cup {[kind |-> "ok", data |-> d] : d \in Bodies}

\* the distinct ways reading the body and the parse can end
\* (valid: the valid addresses among the lines of the response)
FetchResults ==
    {[kind |-> o.kind, valid |-> ParseIps(o.data), r |-> FetchIpSet(o)] :
        o \in FetchOutcomes}

(***************************************************************************)
(* The memo in front of the Stores.                                        *)
(***************************************************************************)
\* a comparison that counts a record of exactly one day as out of date
ShouldUpdate_AtOneDay(update, timestamp, currentTime) ==
    IF update = "auto"
    THEN ~timestamp.nan /\ currentTime - timestamp.num >= DAY
    ELSE update = "true"

\* let shouldUpdate ... : "auto" compares the Store's timestamp with the
\* clock (a comparison with NaN is false), true forces a refresh, anything
\* else does not
ShouldUpdate(update, timestamp, currentTime) ==
    IF update = "auto"
    THEN ~timestamp.nan /\ currentTime - timestamp.num > DAY
    ELSE update = "true"

\* a memo check that forgets !shouldUpdate
MemoHit_IgnoresShouldUpdate(shouldUpdate) ==
    /\ cachedIpList # <<>>
    /\ now - cacheTimestamp < CACHE_TTL

\* if (cachedIpList && !shouldUpdate && Date.now() - cacheTimestamp < CACHE_TTL)
MemoHit(shouldUpdate) ==
    /\ cachedIpList # <<>>
    /\ ~shouldUpdate
    /\ now - cacheTimestamp < CACHE_TTL

(***************************************************************************)
(* URLs.  validatedUrls is the module's Map from a URL to the outcome of   *)
(* its first `new URL(url)`; the texts below are the URLs of the model.    *)
(***************************************************************************)
Letters ==
    {"a", "b", "c", "d", "e", "f", "g", "h", "i", "j", "k", "l", "m",
     "n", "o", "p", "q", "r", "s", "t", "u", "v", "w", "x", "y", "z"}
SchemeChar(ch) == ch \in Letters \/ IsDigit(ch) \/ ch \in {"+", "-", "."}

\* index of the first ch in s, 0 when there is none
IndexOf(s, ch) ==
    IF \E i \in 1..Len(s) : s[i] = ch
    THEN CHOOSE i \in 1..Len(s) :
            s[i] = ch /\ \A j \in 1..(i - 1) : s[j] # ch
    ELSE 0

RECURSIVE DropSlashes(_)
DropSlashes(s) ==
    IF s # <<>> /\ s[1] = "/" THEN DropSlashes(Tail(s)) ELSE s

\* the host of what follows "scheme:": up to the first "/", "?" or "#"
HostOf(rest) ==
    LET s == DropSlashes(rest)
        ends == {i \in 1..Len(s) : s[i] \in {"/", "?", "#"}}
    IN  IF ends = {} THEN s
        ELSE SubSeq(s, 1, (CHOOSE i \in ends : \A j \in ends : i <= j) - 1)

SpecialSchemes == {<<"h", "t", "t", "p">>, <<"h", "t", "t", "p", "s">>}

\* new URL(url), no base: the text is trimmed, it must start with a scheme
\* and a colon, and an http(s) URL must name a host without spaces
NewURL(url) ==
    LET text == Trim(url)
        k == IndexOf(text, ":")
        scheme == SubSeq(text, 1, k - 1)
        host == HostOf(SubSeq(text, k + 1, Len(text)))
    IN  IF \/ k <= 1
           \/ text[1] \notin Letters
           \/ \E j \in 1..(k - 1) : ~SchemeChar(text[j])
        THEN Thrown
        ELSE IF /\ scheme \in SpecialSchemes
                /\ (host = <<>> \/ \E i \in 1..Len(host) : IsSpace(host[i]))
             THEN Thrown
             ELSE Ok(text)

DefaultUrl ==
    <<"h", "t", "t", "p", "s", ":", "/", "/", "p", "o", "s", "t", "m", 
      "a", "n", "-", "e", "c", "h", "o", ".", "c", "o", "m", "/", "i", 
      "p">>
GoodUrl == <<"h", "t", "t", "p", ":", "/", "/", "a", ".", "b", "/", "i", "p">>
NotUrl == <<"n", "o", "t", " ", "a", " ", "u", "r", "l">>
NoScheme == <<"a", ".", "b", "/", "i", "p">>
NoHost == <<"h", "t", "t", "p", ":", "/", "/">>
\* the overrideUrl of a call; "" and undefined both select the default URL
OverrideUrls == {<<>>, GoodUrl, NotUrl, NoScheme, NoHost}

\* new Map()
NoUrls == [u \in {} |-> TRUE]
\* map.set(url, valid)
MapSet(map, url, valid) ==
    [u \in DOMAIN map \cup {url} |-> IF u = url THEN valid ELSE map[u]]

\* a validation that does not look at a remembered failure
ValidateUrl_ForgetsInvalid(map, url) ==
    IF url \notin DOMAIN map
    THEN IF NewURL(url).thrown
         THEN [map |-> MapSet(map, url, FALSE), thrown |-> TRUE]
         ELSE [map |-> MapSet(map, url, TRUE), thrown |-> FALSE]
    ELSE [map |-> map, thrown |-> FALSE]

\* getIpAddress, "Check URL cache first": a URL not in the Map is parsed and
\* the outcome remembered; a URL remembered as invalid throws again
ValidateUrl(map, url) ==
    IF url \notin DOMAIN map
    THEN IF NewURL(url).thrown
         THEN [map |-> MapSet(map, url, FALSE), thrown |-> TRUE]
         ELSE [map |-> MapSet(map, url, TRUE), thrown |-> FALSE]
    ELSE [map |-> map, thrown |-> map[url] = FALSE]

(***************************************************************************)
(* Calls.                                                                  *)
(***************************************************************************)
Updates == {"auto", "true", "false"}
Ops == {"getIpList", "isIpTor", "amIUsingTor"}
\* what getIpAddress may resolve to: an address, the sentinel, or undefined
\* when the JSON document has no ip field
Unknown == <<"u", "n", "k", "n", "o", "w", "n">>
Undefined == <<"u", "n", "d", "e", "f", "i", "n", "e", "d">>

\* how the address discovery can end: the request fails, the body is no JSON,
\* the document is null, it has no ip field, or it names an address
IpOutcomes ==
    {[kind |-> k, ip |-> <<>>] : k \in {"neterror", "badjson", "null", "noip"}}
    \cup {[kind |-> "json", ip |-> Ip1]}

IdleCall ==
    [pc |-> "idle", op |-> "none", update |-> "auto", store |-> "mem",
     ip |-> <<>>, shouldUpdate |-> FALSE, ipSet |-> {}, tsArg |-> 0,
     fetches |-> 0, fetched |-> "none", valid |-> {}, wrote |-> "none",
     memoLive |-> FALSE, memoHit |-> FALSE,
     status |-> "pending", list |-> {}, answer |-> FALSE,
     before |-> NewInMemory, follows |-> <<>>, at |-> 0, data |-> <<>>,
     timestamp |-> Num(0),
     mine |-> {}, shared |-> FALSE, saved |-> <<>>, mutated |-> FALSE,
     last |-> "none", prev |-> "none", prior |-> <<>>, timer |-> "none",
     url |-> <<>>, seen |-> FALSE, requests |-> 0, discovery |-> "none",
     address |-> <<>>, isMemo |-> FALSE]

\* getIpList returns `set`; isIpTor and amIUsingTor answer ipSet.has(ip).
\* list is the set as returned, mine the members of the Set object the
\* caller of getIpList holds from then on.
Settle(c, set) ==
    [c EXCEPT !.pc = "done", !.status = "resolved", !.list = set,
              !.mine = IF c.op = "getIpList" THEN set ELSE {},
              !.answer = IF c.op = "getIpList" THEN FALSE ELSE c.ip \in set]

\* cachedIpList = ipList; return ipList: the Set object the call returns is
\* the memo from now on, and the objects returned earlier no longer are
StoreMemo(p, c) ==
    [q \in Callers |-> IF q = p THEN [c EXCEPT !.isMemo = TRUE]
                       ELSE [call[q] EXCEPT !.isMemo = FALSE]]

\* an error leaves the call: its promise rejects
Reject(c) == [c EXCEPT !.pc = "done", !.status = "rejected"]

\* getIpList from the memo check to the first await behind it: the memo,
\* the object itself, is returned, or persistence.getIpList() is called
AfterShouldUpdate(c, shouldUpdate) ==
    IF MemoHit(shouldUpdate)
    THEN Settle([c EXCEPT !.shouldUpdate = shouldUpdate, !.memoHit = TRUE,
                          !.isMemo = TRUE],
                cachedIpList[1])
    ELSE [c EXCEPT !.shouldUpdate = shouldUpdate, !.pc = "readList"]

\* getIpList from its first line to its first await
EntergetIpList(c) ==
    IF c.update = "auto" THEN [c EXCEPT !.pc = "getTimestamp"]
    ELSE AfterShouldUpdate(c, ShouldUpdate(c.update, Num(0), now))

Quiet == \A q \in Callers : call[q].pc = "idle"

Init ==
    /\ now = StartTime
    /\ events = 0
    /\ persistence = [s \in Stores |->
                        IF Kind(s) = "FileSystemPersistence" THEN NoFiles
                        ELSE NewInMemory]
    /\ cachedIpList = <<>>
    /\ cacheTimestamp = 0
    /\ call = [p \in Callers |-> IdleCall]
    /\ lastCall = <<>>
    /\ validatedUrls = NoUrls

\* a public operation is called; isIpTor and amIUsingTor call getIpList with
\* the default update, "auto"
Begin(p, op, update, s, ip) ==
    /\ call[p].pc = "idle"
    /\ events < MaxEvents
    /\ events' = events + 1
    /\ LET c == [IdleCall EXCEPT !.op = op, !.update = update, !.store = s,
                                 !.ip = ip, !.before = persistence[s],
                                 !.at = now,
                                 !.memoLive =
                                    /\ cachedIpList # <<>>
                                    /\ now - cacheTimestamp < CACHE_TTL,
                                 !.follows =
                                    IF /\ lastCall # <<>>
                                       /\ lastCall[1].store = s
                                       /\ lastCall[1].refresh
                                       /\ lastCall[1].at = now
                                    THEN lastCall ELSE <<>>,
                                 !.prior =
                                    IF /\ lastCall # <<>>
                                       /\ lastCall[1].store = s
                                       /\ lastCall[1].noUpdate
                                    THEN lastCall ELSE <<>>]
       IN  call' = [call EXCEPT ![p] =
                      IF op = "amIUsingTor"
                      THEN [c EXCEPT !.pc = "getIpAddress"]
                      ELSE EntergetIpList(c)]
    /\ lastCall' = <<>>
    /\ validatedUrls' = IF op = "amIUsingTor"
                        THEN ValidateUrl(validatedUrls, DefaultUrl).map
                        ELSE validatedUrls
    /\ UNCHANGED <<now, persistence, cachedIpList, cacheTimestamp>>

\* getIpAddress({overrideUrl}) is called: from its first line to
\* `await fetch(url)`, or to the catch when the URL is invalid
getIpAddress(p, overrideUrl) ==
    /\ call[p].pc = "idle"
    /\ events < MaxEvents
    /\ events' = events + 1
    /\ LET url == IF overrideUrl = <<>> THEN DefaultUrl ELSE overrideUrl
           v == ValidateUrl(validatedUrls, url)
           c == [IdleCall EXCEPT !.op = "getIpAddress", !.url = url,
                                 !.seen = url \in DOMAIN validatedUrls,
                                 !.at = now]
       IN  /\ validatedUrls' = v.map
           /\ call' = [call EXCEPT ![p] =
                         IF v.thrown
                         THEN [c EXCEPT !.pc = "done", !.status = "resolved",
                                        !.discovery = "invalid",
                                        !.address = Unknown]
                         ELSE [c EXCEPT !.pc = "getIpAddress",
                                        !.requests = 1]]
    /\ lastCall' = <<>>
    /\ UNCHANGED <<now, persistence, cachedIpList, cacheTimestamp>>

\* getIpAddress past the validation: data.ip, or "unknown" from the catch
\* when the request fails, the body is no JSON or the document is null
getIpAddressResult(o) ==
    CASE o.kind = "json" -> Ok(o.ip)
      [] o.kind = "noip" -> Ok(Undefined)
      [] OTHER -> Ok(Unknown)

\* getIpAddress has ended.  Called directly, its promise settles; in
\* amIUsingTor, await getIpAddress() has completed (outside any try block)
\* and isIpTor(ip, persistence) starts
getIpAddressDone(p, o) ==
    /\ call[p].pc = "getIpAddress"
    /\ LET c == call[p]
           r == getIpAddressResult(o)
       IN  call' = [call EXCEPT ![p] =
                      IF r.thrown THEN Reject([c EXCEPT !.discovery = o.kind])
                      ELSE IF c.op = "getIpAddress"
                      THEN [c EXCEPT !.pc = "done", !.status = "resolved",
                                     !.discovery = o.kind, !.address = r.val]
                      ELSE EntergetIpList([c EXCEPT !.ip = r.val])]
    /\ UNCHANGED <<now, events, persistence, cachedIpList,
                   cacheTimestamp, lastCall>>
    /\ UNCHANGED validatedUrls

\* await persistence.getTimestamp() has completed (outside the try block)
getTimestampDone(p) ==
    /\ call[p].pc = "getTimestamp"
    /\ LET c == call[p]
           r == getTimestampOf(c.store)
       IN  call' = [call EXCEPT ![p] =
                      IF r.thrown THEN Reject(c)
                      ELSE AfterShouldUpdate([c EXCEPT !.timestamp = r.val],
                              ShouldUpdate(c.update, r.val, now))]
    /\ UNCHANGED <<now, events, persistence, cachedIpList,
                   cacheTimestamp, lastCall>>
    /\ UNCHANGED validatedUrls

\* await persistence.getIpList() has completed: refresh, or memoise and return
readListDone(p) ==
    /\ call[p].pc = "readList"
    /\ LET c == call[p]
           r == getIpListOf(c.store)
       IN  IF r.thrown
           THEN /\ call' = [call EXCEPT ![p] = Settle(c, {})]
                /\ UNCHANGED <<cachedIpList, cacheTimestamp>>
           ELSE IF r.val = {} \/ c.shouldUpdate
           THEN /\ call' = [call EXCEPT ![p] =
                              [c EXCEPT !.pc = "fetch", !.fetches = @ + 1,
                                        !.timer = "pending"]]
                /\ UNCHANGED <<cachedIpList, cacheTimestamp>>
           ELSE /\ call' = StoreMemo(p, Settle(c, r.val))
                /\ cachedIpList' = <<r.val>>
                /\ cacheTimestamp' = now
    /\ UNCHANGED <<now, events, persistence, lastCall>>
    /\ UNCHANGED validatedUrls

\* a getIpListOnline that fetches once more after a failure
OnlineFailed_Retries(p, c) ==
    IF c.fetches < 2
    THEN /\ call' = [call EXCEPT ![p] =
                       [c EXCEPT !.pc = "fetch", !.fetches = @ + 1,
                                 !.timer = "pending"]]
         /\ UNCHANGED <<cachedIpList, cacheTimestamp>>
    ELSE /\ call' = [call EXCEPT ![p] = Settle(c, {})]
         /\ cachedIpList' = <<{}>>
         /\ cacheTimestamp' = now

\* getIpListOnline ended in its catch: the inner catch calls clearTimeout,
\* the outer one returns new Set(), which getIpList memoises and returns
OnlineFailed(p, c) ==
    /\ call' = StoreMemo(p, Settle([c EXCEPT !.timer =
                                IF @ = "pending" THEN "cleared" ELSE @], {}))
    /\ cachedIpList' = <<{}>>
    /\ cacheTimestamp' = now

\* getIpListOnline: await fetch(url, {signal}) has ended.  The timer fired
\* and aborted it, or it failed, or the response arrived: then clearTimeout
\* is called, a status that is no success throws, and response.text() is
\* awaited
fetchDone(p, kind) ==
    /\ call[p].pc = "fetch"
    /\ LET c == call[p]
       IN  IF kind = "timeout"
           THEN OnlineFailed(p, [c EXCEPT !.fetched = kind,
                                          !.timer = "fired"])
           ELSE IF kind # "ok"
           THEN OnlineFailed(p, [c EXCEPT !.fetched = kind])
           ELSE /\ call' = [call EXCEPT ![p] =
                              [c EXCEPT !.pc = "text", !.timer = "cleared"]]
                /\ UNCHANGED <<cachedIpList, cacheTimestamp>>
    /\ UNCHANGED <<now, events, persistence, lastCall>>
    /\ UNCHANGED validatedUrls

\* getIpListOnline: await response.text() has ended and the body is parsed
textDone(p, res) ==
    /\ call[p].pc = "text"
    /\ LET c == call[p]
           r == res.r
       IN  IF r.thrown
           THEN OnlineFailed(p, [c EXCEPT !.fetched = res.kind,
                                          !.valid = res.valid])
           ELSE /\ call' = [call EXCEPT ![p] =
                              [c EXCEPT !.fetched = res.kind,
                                        !.valid = res.valid, !.ipSet = r.val,
                                        !.pc = "saveIpList"]]
                /\ UNCHANGED <<cachedIpList, cacheTimestamp>>
    /\ UNCHANGED <<now, events, persistence, lastCall>>
    /\ UNCHANGED validatedUrls

\* a getIpListOnline that goes on to saveTimestamp when saveIpList failed
saveIpListDone_IgnoresFailure(p, ioOk, ipList) ==
    /\ call[p].pc = "saveIpList"
    /\ ipList \in ArrayFrom(call[p].ipSet)
    /\ LET c == call[p]
           r == saveIpListOf(c.store, ipList, ioOk)
       IN  /\ persistence' = IF r.thrown THEN persistence
                             ELSE [persistence EXCEPT ![c.store] = r.val]
           /\ call' = [call EXCEPT ![p] =
                         [c EXCEPT !.wrote = IF r.thrown THEN "none" ELSE "list",
                                   !.tsArg = now, !.pc = "saveTimestamp"]]
    /\ UNCHANGED <<now, events, lastCall, cachedIpList, cacheTimestamp>>
    /\ UNCHANGED validatedUrls

\* getIpListOnline: await persistence.saveIpList(ipSet) has completed, ipSet
\* having the order ipList.  The write takes effect when the await
\* completes; the argument of the saveTimestamp call that follows,
\* Date.now(), is evaluated here.
saveIpListDone(p, ioOk, ipList) ==
    /\ call[p].pc = "saveIpList"
    /\ ipList \in ArrayFrom(call[p].ipSet)
    /\ LET c == call[p]
           r == saveIpListOf(c.store, ipList, ioOk)
       IN  IF r.thrown
           THEN /\ OnlineFailed(p, c)
                /\ UNCHANGED persistence
           ELSE /\ persistence' = [persistence EXCEPT ![c.store] = r.val]
                /\ call' = [call EXCEPT ![p] =
                              [c EXCEPT !.wrote = "list", !.tsArg = now,
                                        !.pc = "saveTimestamp"]]
                /\ UNCHANGED <<cachedIpList, cacheTimestamp>>
    /\ UNCHANGED <<now, events, lastCall>>
    /\ UNCHANGED validatedUrls

\* getIpListOnline: await persistence.saveTimestamp(Date.now()) has completed;
\* on success the set is returned, memoised and returned by getIpList
saveTimestampDone(p, ioOk) ==
    /\ call[p].pc = "saveTimestamp"
    /\ LET c == call[p]
           r == saveTimestampOf(c.store, c.tsArg, ioOk)
       IN  IF r.thrown
           THEN /\ OnlineFailed(p, c)
                /\ UNCHANGED persistence
           ELSE /\ persistence' = [persistence EXCEPT ![c.store] = r.val]
                /\ call' = StoreMemo(p, Settle([c EXCEPT !.wrote = "both"],
                                               c.ipSet))
                /\ cachedIpList' = <<c.ipSet>>
                /\ cacheTimestamp' = now
    /\ UNCHANGED <<now, events, lastCall>>
    /\ UNCHANGED validatedUrls

\* the caller takes the result
Return(p) ==
    /\ call[p].pc = "done"
    /\ call' = [call EXCEPT ![p] = IdleCall]
    /\ lastCall' = IF \/ call[p].wrote = "both"
                      \/ call[p].op = "getIpList" /\ call[p].update = "false"
                   THEN <<[store |-> call[p].store,
                           refresh |-> call[p].wrote = "both",
                           noUpdate |-> call[p].update = "false",
                           list |-> call[p].list, at |-> now]>>
                   ELSE <<>>
    /\ UNCHANGED <<now, events, persistence, cachedIpList, cacheTimestamp>>
    /\ UNCHANGED validatedUrls

(***************************************************************************)
(* The environment.                                                        *)
(***************************************************************************)
Tick(d) ==
    /\ Quiet
    /\ events < MaxEvents
    /\ now' = now + d
    /\ events' = events + 1
    /\ lastCall' = IF lastCall # <<>> /\ lastCall[1].noUpdate
                   THEN lastCall ELSE <<>>
    /\ UNCHANGED <<persistence, cachedIpList, cacheTimestamp, call>>
    /\ UNCHANGED validatedUrls

\* a caller writes a set into a Store directly, as the benchmark does:
\* saveIpList(ipList), then saveTimestamp(Date.now()) when `stamp`
DirectWrite(s, ipList, stamp) ==
    /\ Quiet
    /\ events < MaxEvents
    /\ LET rec == saveIpListOf(s, ipList, TRUE).val
       IN  persistence' = [persistence EXCEPT ![s] =
              IF stamp
              THEN IF Kind(s) = "FileSystemPersistence"
                   THEN FsSaveTimestamp(rec, now, TRUE).val
                   ELSE MemSaveTimestamp(rec, now).val
              ELSE rec]
    /\ events' = events + 1
    /\ lastCall' = <<>>
    /\ UNCHANGED <<now, cachedIpList, cacheTimestamp, call>>
    /\ UNCHANGED validatedUrls

\* a file of the file-backed Store is removed or becomes unreadable
FileLost(s, which) ==
    /\ Quiet
    /\ events < MaxEvents
    /\ Kind(s) = "FileSystemPersistence"
    /\ persistence' = [persistence EXCEPT ![s] =
                          IF which = "list"
                          THEN [@ EXCEPT !.list = <<>>, !.listOk = FALSE]
                          ELSE [@ EXCEPT !.ts = <<>>, !.tsOk = FALSE]]
    /\ persistence'[s] # persistence[s]
    /\ events' = events + 1
    /\ lastCall' = <<>>
    /\ UNCHANGED <<now, cachedIpList, cacheTimestamp, call>>
    /\ UNCHANGED validatedUrls

Environment ==
    \/ \E d \in TickSizes : Tick(d)
    \/ \E s \in Stores, set \in SUBSET Addr, stamp \in BOOLEAN :
          \E ipList \in ArrayFrom(set) : DirectWrite(s, ipList, stamp)
    \/ \E s \in Stores, which \in {"list", "ts"} : FileLost(s, which)

Step(p) ==
    \/ \E update \in Updates, s \in Stores : Begin(p, "getIpList", update, s, Blank)
    \/ \E s \in Stores, ip \in Addr : Begin(p, "isIpTor", "auto", s, ip)
    \/ \E s \in Stores : Begin(p, "amIUsingTor", "auto", s, Blank)
    \/ \E o \in IpOutcomes : getIpAddressDone(p, o)
    \/ getTimestampDone(p)
    \/ readListDone(p)
    \/ \E kind \in ResponseOutcomes : fetchDone(p, kind)
    \/ \E res \in FetchResults : textDone(p, res)
    \/ \E ioOk \in BOOLEAN, ipList \in ArrayFrom(call[p].ipSet) :
              saveIpListDone(p, ioOk, ipList)
    \/ \E ioOk \in BOOLEAN : saveTimestampDone(p, ioOk)
    \/ Return(p)

\* calls awaited one at a time
Next ==
    \/ Environment
    \/ \E p \in SeqCallers : Step(p)

Spec == Init /\ [][Next]_vars

(***************************************************************************)
(* Address discovery called directly, with and without an override URL.    *)
(***************************************************************************)
NextAddr ==
    \E p \in SeqCallers :
        \/ \E overrideUrl \in OverrideUrls : getIpAddress(p, overrideUrl)
        \/ \E o \in IpOutcomes : getIpAddressDone(p, o)
        \/ Return(p)

SpecAddr == Init /\ [][NextAddr]_vars

(***************************************************************************)
(* Concurrent calls.  A call runs from one await to the next without       *)
(* interruption; at an await any other call may run.                       *)
(***************************************************************************)
\* the await of the call is on a method of InMemoryPersistence, whose body
\* holds no await: its continuation is already in the microtask queue
AtMicrotask(p) ==
    /\ call[p].pc \in {"getTimestamp", "readList", "saveIpList", "saveTimestamp"}
    /\ Kind(call[p].store) = "InMemoryPersistence"

\* the await of the call is on the network or on a file operation
IoWait(p) ==
    /\ call[p].pc \in {"getIpAddress", "getTimestamp", "readList", "fetch",
                       "text",
                       "saveIpList", "saveTimestamp"}
    /\ ~AtMicrotask(p)

\* the event loop runs the queued microtasks before it delivers the
\* completion of a network or file operation
Runnable(p) ==
    IoWait(p) => \A q \in Callers \ {p} : ~AtMicrotask(q)

\* time passes while calls wait
Pass(d) ==
    /\ ~Quiet
    /\ events < MaxConcEvents
    /\ now' = now + d
    /\ events' = events + 1
    /\ UNCHANGED <<persistence, cachedIpList, cacheTimestamp, call,
                   lastCall>>
    /\ UNCHANGED validatedUrls

\* the Store the concurrent calls share holds a non-empty set whose timestamp
\* is 0 or older than a day; the memo is empty
SeededTimes == {0, StartTime - DAY - 1}

InitConc ==
    /\ now = StartTime
    /\ events = 0
    /\ \E s \in Stores, t \in SeededTimes :
          persistence = [x \in Stores |->
                           IF x = s THEN Holding(s, <<Ip1>>, t)
                           ELSE IF Kind(x) = "FileSystemPersistence"
                           THEN NoFiles ELSE NewInMemory]
    /\ cachedIpList = <<>>
    /\ cacheTimestamp = 0
    /\ call = [p \in Callers |-> IdleCall]
    /\ lastCall = <<>>
    /\ validatedUrls = NoUrls

\* the body of the response to a concurrent call holds valid addresses
ConcFetchResults ==
    {res \in FetchResults : res.valid \in {{Ip2}, {Ip1, Ip2}}}

\* one step of a getIpList call on the shared Store
ConcStep(p) ==
    \/ \E update \in {"auto", "true"}, s \in Stores :
          /\ getIpListOf(s).val # {}
          /\ events < MaxConcEvents
          /\ Begin(p, "getIpList", update, s, Blank)
    \/ Runnable(p) /\ getTimestampDone(p)
    \/ Runnable(p) /\ readListDone(p)
    \/ \E kind \in {"timeout", "ok"} : Runnable(p) /\ fetchDone(p, kind)
    \/ \E res \in ConcFetchResults : Runnable(p) /\ textDone(p, res)
    \/ \E ioOk \in BOOLEAN, ipList \in ArrayFrom(call[p].ipSet) :
          Runnable(p) /\ saveIpListDone(p, ioOk, ipList)
    \/ \E ioOk \in BOOLEAN : Runnable(p) /\ saveTimestampDone(p, ioOk)
    \/ Return(p)

\* calls started without awaiting the previous one
NextConc ==
    \/ \E d \in PassSizes : Pass(d)
    \/ \E p \in Callers : ConcStep(p)

SpecConc == InitConc /\ [][NextConc]_vars

(***************************************************************************)
(* Calls with update="auto" on Stores whose record is about one day old.   *)
(***************************************************************************)
\* the age of the record when the behaviour starts, relative to one day, ms
AgeOffsets == {0 - 2, 0 - 1, 0, 1, 2}

\* a Store holds a non-empty set written DAY + off ms ago; the memo is empty
InitDayOld ==
    /\ now = StartTime
    /\ events = 0
    /\ \E s \in Stores, ipList \in {<<Ip1>>, <<Ip2>>, <<Ip1, Ip2>>},
          off \in AgeOffsets :
          persistence = [x \in Stores |->
                           IF x = s
                           THEN Holding(s, ipList, StartTime - DAY - off)
                           ELSE IF Kind(x) = "FileSystemPersistence"
                           THEN NoFiles ELSE NewInMemory]
    /\ cachedIpList = <<>>
    /\ cacheTimestamp = 0
    /\ call = [p \in Callers |-> IdleCall]
    /\ lastCall = <<>>
    /\ validatedUrls = NoUrls

\* getIpList({update: "auto", persistence}) on the Store that holds a set
NextAuto ==
    \E p \in SeqCallers :
        \/ \E s \in Stores :
              /\ getIpListOf(s).val # {}
              /\ Begin(p, "getIpList", "auto", s, Blank)
        \/ getTimestampDone(p)
        \/ readListDone(p)
        \/ \E kind \in ResponseOutcomes : fetchDone(p, kind)
        \/ \E res \in FetchResults : textDone(p, res)
        \/ \E ioOk \in BOOLEAN, ipList \in ArrayFrom(call[p].ipSet) :
              saveIpListDone(p, ioOk, ipList)
        \/ \E ioOk \in BOOLEAN : saveTimestampDone(p, ioOk)
        \/ Return(p)

SpecDayOld == InitDayOld /\ [][NextAuto]_vars

(***************************************************************************)
(* The same calls under fairness.  The timer of setTimeout fires when it   *)
(* is pending, the operations of the Stores complete and the caller takes  *)
(* the result; the publisher need not answer, at any point of a response.  *)
(***************************************************************************)
Fairness ==
    \A p \in SeqCallers :
        /\ WF_vars(fetchDone(p, "timeout"))
        /\ WF_vars(getTimestampDone(p))
        /\ WF_vars(readListDone(p))
        /\ WF_vars(\E ioOk \in BOOLEAN, ipList \in ArrayFrom(call[p].ipSet) :
                      saveIpListDone(p, ioOk, ipList))
        /\ WF_vars(\E ioOk \in BOOLEAN : saveTimestampDone(p, ioOk))
        /\ WF_vars(Return(p))

SpecNet == InitDayOld /\ [][NextAuto]_vars /\ Fairness

(***************************************************************************)
(* Calls with update="auto" on a Store whose timestamp file holds a text   *)
(* that saveTimestamp did not write, or is missing.                        *)
(***************************************************************************)
\* the text of the timestamp file: empty (a write that was cut short), no
\* number, and the decimal texts of a time within the day and of an older one
TsTexts ==
    {<<>>, <<"a", "b", "c">>,
     NumberToString(StartTime - 1), NumberToString(StartTime - DAY - 1)}

\* the records of a Store that holds the set {Ip1}
TsFileRecs(s) ==
    IF Kind(s) = "FileSystemPersistence"
    THEN {FsSaveIpList(NoFiles, <<Ip1>>, TRUE).val}
         \cup {[FsSaveIpList(NoFiles, <<Ip1>>, TRUE).val
                    EXCEPT !.ts = text, !.tsOk = TRUE] : text \in TsTexts}
    ELSE {Holding(s, <<Ip1>>, timestamp) : timestamp \in {0, StartTime - 1}}

InitTsFile ==
    /\ now = StartTime
    /\ events = 0
    /\ \E s \in Stores : \E rec \in TsFileRecs(s) :
          persistence = [x \in Stores |->
                           IF x = s THEN rec
                           ELSE IF Kind(x) = "FileSystemPersistence"
                           THEN NoFiles ELSE NewInMemory]
    /\ cachedIpList = <<>>
    /\ cacheTimestamp = 0
    /\ call = [p \in Callers |-> IdleCall]
    /\ lastCall = <<>>
    /\ validatedUrls = NoUrls

SpecTsFile == InitTsFile /\ [][NextAuto]_vars

(***************************************************************************)
(* The Fetcher on response texts with malformed lines.                     *)
(***************************************************************************)
Ip1234 == <<"1", ".", "2", ".", "3", ".", "4">>
Short123 == <<"1", ".", "2", ".", "3">>
Seg1x == <<"1", "x", ".", "2", ".", "3", ".", "4">>
SegExtra == <<"1", ".", "2", ".", "3", ".", "4", " ", "e", "x", "t", "r", "a">>
SegNegZero == <<"-", "0", ".", "1", ".", "2", ".", "3">>
Padded == <<" ", "1", ".", "2", ".", "3", ".", "4", "\r">>

\* the lines of a response of the publisher, and the responses
TextLines ==
    {Ip1234, Ip2, Bad999, Short123, Blank, Seg1x, SegExtra, SegNegZero, Padded}
TextBodies ==
    {Join(ls, "\n") : ls \in UNION {[1..n -> TextLines] : n \in 0..MaxLines}}

\* the fetch, the status check and the parse on these responses
TextFetchResults ==
    {[kind |-> "ok", valid |-> ParseIps(d), r |-> FetchIpSet([kind |-> "ok", data |-> d])] :
        d \in TextBodies}

\* getIpList({update: true, persistence}) waits for the body of the
\* response; call.data is the text the publisher is about to send
InitText ==
    /\ now = StartTime
    /\ events = 0
    /\ persistence = [s \in Stores |->
                        IF Kind(s) = "FileSystemPersistence" THEN NoFiles
                        ELSE NewInMemory]
    /\ cachedIpList = <<>>
    /\ cacheTimestamp = 0
    /\ \E s \in Stores, d \in TextBodies :
          call = [p \in Callers |->
                    IF p \in SeqCallers
                    THEN [IdleCall EXCEPT !.pc = "text", !.op = "getIpList",
                                          !.update = "true", !.store = s,
                                          !.shouldUpdate = TRUE,
                                          !.fetches = 1,
                                          !.timer = "cleared",
                                          !.before = persistence[s],
                                          !.at = now, !.data = d]
                    ELSE IdleCall]
    /\ lastCall = <<>>
    /\ validatedUrls = NoUrls

\* the response arrives and is parsed, the set is written and returned
NextText ==
    \E p \in SeqCallers :
        \/ \E res \in TextFetchResults :
              /\ res.valid = ParseIps(call[p].data)
              /\ textDone(p, res)
        \/ \E ioOk \in BOOLEAN, ipList \in ArrayFrom(call[p].ipSet) :
              saveIpListDone(p, ioOk, ipList)
        \/ \E ioOk \in BOOLEAN : saveTimestampDone(p, ioOk)
        \/ Return(p)

SpecText == InitText /\ [][NextText]_vars

(***************************************************************************)
(* Callers that keep the Set a getIpList call returned and change it.  A   *)
(* call at pc "done" has resolved and its caller holds the result; calls   *)
(* are awaited one at a time, by either caller.                            *)
(***************************************************************************)
InitShare ==
    /\ now = StartTime
    /\ events = 0
    /\ \E s \in Stores :
          persistence = [x \in Stores |->
                           IF x = s THEN Holding(s, <<Ip1>>, StartTime)
                           ELSE IF Kind(x) = "FileSystemPersistence"
                           THEN NoFiles ELSE NewInMemory]
    /\ cachedIpList = <<>>
    /\ cacheTimestamp = 0
    /\ call = [p \in Callers |-> IdleCall]
    /\ lastCall = <<>>
    /\ validatedUrls = NoUrls

NoneRunning == \A q \in Callers : call[q].pc \in {"idle", "done"}

\* the caller of a resolved getIpList adds ip to the Set it was given, or
\* deletes it; when that object is the memo, the memo and every other
\* reference to it show the change
Mutate(p, ip) ==
    /\ call[p].pc = "done"
    /\ call[p].op = "getIpList"
    /\ call[p].status = "resolved"
    /\ events < MaxConcEvents
    /\ events' = events + 1
    /\ LET c == call[p]
           set == IF ip \in c.mine THEN c.mine \ {ip} ELSE c.mine \cup {ip}
       IN  /\ call' = [q \in Callers |->
                         IF q = p
                         THEN [c EXCEPT !.mine = set, !.mutated = TRUE]
                         ELSE IF /\ c.isMemo
                                 /\ call[q].isMemo
                                 /\ call[q].op = "getIpList"
                         THEN [call[q] EXCEPT !.mine = set]
                         ELSE call[q]]
           /\ cachedIpList' = IF c.isMemo THEN <<set>> ELSE cachedIpList
    /\ UNCHANGED <<now, persistence, cacheTimestamp, lastCall,
                   validatedUrls>>

ShareStep(p) ==
    \/ \E update \in Updates, s \in Stores :
          /\ NoneRunning
          /\ getIpListOf(s).val # {}
          /\ events < MaxConcEvents
          /\ Begin(p, "getIpList", update, s, Blank)
    \/ \E s \in Stores, ip \in Addr :
          /\ NoneRunning
          /\ getIpListOf(s).val # {}
          /\ events < MaxConcEvents
          /\ Begin(p, "isIpTor", "auto", s, ip)
    \/ getTimestampDone(p)
    \/ readListDone(p)
    \/ \E kind \in {"timeout", "ok"} : fetchDone(p, kind)
    \/ \E res \in ConcFetchResults : textDone(p, res)
    \/ \E ioOk \in BOOLEAN, ipList \in ArrayFrom(call[p].ipSet) :
          saveIpListDone(p, ioOk, ipList)
    \/ \E ioOk \in BOOLEAN : saveTimestampDone(p, ioOk)
    \/ \E ip \in Addr : Mutate(p, ip)
    \/ Return(p)

NextShare == \E p \in Callers : ShareStep(p)

SpecShare == InitShare /\ [][NextShare]_vars

(***************************************************************************)
(* A caller that uses a Store directly: it builds a Set, passes it to      *)
(* saveIpList, takes the Set that getIpList returns, and adds and deletes  *)
(* members of the Set it holds.  call[p].mine is the Set it holds, shared   *)
(* says that this object is the Store's own, saved is the set of the last  *)
(* saveIpList that succeeded, mutated says the caller changed a Set since. *)
(***************************************************************************)
InitUse ==
    /\ now = StartTime
    /\ events = 0
    /\ persistence = [s \in Stores |->
                        IF Kind(s) = "FileSystemPersistence" THEN NoFiles
                        ELSE NewInMemory]
    /\ cachedIpList = <<>>
    /\ cacheTimestamp = 0
    /\ \E s \in Stores :
          call = [p \in Callers |->
                    IF p \in SeqCallers
                    THEN [IdleCall EXCEPT !.pc = "use", !.op = "store",
                                          !.store = s]
                    ELSE IdleCall]
    /\ lastCall = <<>>
    /\ validatedUrls = NoUrls

\* one more operation of the caller
Used(c, op) == [c EXCEPT !.last = op, !.prev = c.last]

\* mine = new Set(set)
UseNew(p, set) ==
    /\ call[p].pc = "use"
    /\ events < MaxUses
    /\ events' = events + 1
    /\ call' = [call EXCEPT ![p] =
                  Used([@ EXCEPT !.mine = set, !.shared = FALSE], "new")]
    /\ UNCHANGED <<now, persistence, cachedIpList, cacheTimestamp,
                   lastCall>>
    /\ UNCHANGED validatedUrls

\* await store.saveIpList(mine)
UseSave(p, ioOk, ipList) ==
    /\ call[p].pc = "use"
    /\ events < MaxUses
    /\ ipList \in ArrayFrom(call[p].mine)
    /\ events' = events + 1
    /\ LET c == call[p]
           r == saveIpListOf(c.store, ipList, ioOk)
       IN  IF r.thrown
           THEN /\ call' = [call EXCEPT ![p] = Used(c, "saveFailed")]
                /\ UNCHANGED persistence
           ELSE /\ persistence' = [persistence EXCEPT ![c.store] = r.val]
                /\ call' = [call EXCEPT ![p] =
                              Used([c EXCEPT !.shared = r.alias,
                                             !.saved = <<c.mine>>,
                                             !.mutated = FALSE], "save")]
    /\ UNCHANGED <<now, cachedIpList, cacheTimestamp, lastCall>>
    /\ UNCHANGED validatedUrls

\* mine = await store.getIpList()
UseGet(p) ==
    /\ call[p].pc = "use"
    /\ events < MaxUses
    /\ events' = events + 1
    /\ LET c == call[p]
           r == getIpListOf(c.store)
       IN  call' = [call EXCEPT ![p] =
                      Used([c EXCEPT !.mine = r.val, !.shared = r.alias],
                           "get")]
    /\ UNCHANGED <<now, persistence, cachedIpList, cacheTimestamp,
                   lastCall>>
    /\ UNCHANGED validatedUrls

\* mine.add(ip) or mine.delete(ip); a Set that is the Store's own changes in
\* the Store as well
UseMutate(p, ip) ==
    /\ call[p].pc = "use"
    /\ events < MaxUses
    /\ events' = events + 1
    /\ LET c == call[p]
           set == IF ip \in c.mine THEN c.mine \ {ip} ELSE c.mine \cup {ip}
       IN  /\ call' = [call EXCEPT ![p] =
                         Used([c EXCEPT !.mine = set, !.mutated = TRUE],
                              "mutate")]
           /\ persistence' = IF c.shared
                             THEN [persistence EXCEPT ![c.store].ips = set]
                             ELSE persistence
    /\ UNCHANGED <<now, cachedIpList, cacheTimestamp, lastCall>>
    /\ UNCHANGED validatedUrls

NextUse ==
    \E p \in SeqCallers :
        \/ \E set \in SUBSET Addr : UseNew(p, set)
        \/ \E ioOk \in BOOLEAN, ipList \in ArrayFrom(call[p].mine) :
              UseSave(p, ioOk, ipList)
        \/ UseGet(p)
        \/ \E ip \in Addr : UseMutate(p, ip)

SpecUse == InitUse /\ [][NextUse]_vars

(***************************************************************************)
(* The Store states of the staleness policy, read off a Store record.      *)
(***************************************************************************)
\* a text of decimal digits
IsDecimal(text) ==
    text # <<>> /\ \A k \in 1..Len(text) : IsDigit(text[k])
\* the record of a file-backed Store
OfFiles(rec) == "list" \in DOMAIN rec
\* the set a Store holds: the non-empty trimmed lines of the list file
\* (nothing, when the file is gone), or the set in memory
HeldSet(rec) ==
    IF OfFiles(rec)
    THEN IF rec.listOk
         THEN {Trim(line) : line \in Range(Split(rec.list, "\n"))} \ {<<>>}
         ELSE {}
    ELSE rec.ips
\* the timestamp a Store holds: the number the timestamp file's decimal text
\* denotes (0, when the file is gone or holds no decimal text), or the number
\* in memory
HeldTs(rec) ==
    IF OfFiles(rec)
    THEN IF rec.tsOk /\ IsDecimal(rec.ts)
         THEN DigitsValue(rec.ts, 0, FALSE).num ELSE 0
    ELSE rec.ts
EmptyRec(rec) == HeldSet(rec) = {}
FreshRec(rec) == HeldTs(rec) # 0 /\ now - HeldTs(rec) <= DAY
StaleRec(rec) == HeldTs(rec) = 0 \/ now - HeldTs(rec) > DAY

\* the record was STALE at time t
StaleAt(rec, t) == HeldTs(rec) = 0 \/ t - HeldTs(rec) > DAY

\* the call of caller p has finished and its result is not yet taken
Finished(p) == call[p].pc = "done"
\* the fetch of the call ended without a validated non-empty set
FetchFailed(c) ==
    c.fetched # "none" /\ (c.fetched # "ok" \/ c.valid = {})
\* the fetch of the call produced a validated non-empty set
FetchSucceeded(c) == c.fetched = "ok" /\ c.valid # {}

(***************************************************************************)
(* The claims.                                                             *)
(***************************************************************************)

\* C1: when a refresh is attempted and the fetch fails against a Store that
\* holds a non-empty set X, the call returns X.
C1_FailedRefreshReturnsStored ==
    \A p \in Callers :
        LET c == call[p]
        IN  (Finished(p) /\ FetchFailed(c) /\ ~EmptyRec(c.before))
                => (c.status = "resolved" /\ c.list = HeldSet(c.before))

\* C2: a call with update=false never invokes the Fetcher.
C2_UpdateFalseNeverFetches ==
    \A p \in Callers : call[p].update = "false" => call[p].fetches = 0

\* C3: when getIpList does not refresh (a FRESH non-empty Store with
\* update="auto", a non-empty Store with update=false) it returns the set
\* that the Store passed to it holds.
C3_NoRefreshReturnsStoreSet ==
    \A p \in Callers :
        LET c == call[p]
        IN  (/\ Finished(p)
             /\ c.op = "getIpList"
             /\ ~EmptyRec(c.before)
             /\ \/ c.update = "auto" /\ FreshRec(c.before)
                \/ c.update = "false")
                => (c.status = "resolved"
                    /\ c.list = HeldSet(persistence[c.store]))

\* C4: after a call the Store's record is the pair it was before the call or
\* the pair (newly fetched set, time of this refresh), never a mix.
C4_RecordNeverPartiallyUpdated ==
    \A p \in Callers :
        LET c == call[p]
            rec == persistence[c.store]
        IN  Finished(p)
                => \/ /\ HeldSet(rec) = HeldSet(c.before)
                      /\ HeldTs(rec) = HeldTs(c.before)
                   \/ /\ FetchSucceeded(c)
                      /\ HeldSet(rec) = c.valid
                      /\ HeldTs(rec) = c.tsArg

\* C5: a fetch that fails before producing a validated non-empty set writes
\* nothing: the Store's set and timestamp are as they were before the call.
C5_FailedFetchWritesNothing ==
    \A p \in Callers :
        LET c == call[p]
        IN  FetchFailed(c) => persistence[c.store] = c.before

\* C5 witness: a failed fetch against a Store that held a non-empty set
C5_Witness ==
    \E p \in Callers :
        /\ Finished(p)
        /\ FetchFailed(call[p])
        /\ ~EmptyRec(call[p].before)

\* C6: a call with update=true always invokes the Fetcher and never serves
\* the memo, also when the memo is younger than a minute.
C6_UpdateTrueAlwaysFetches ==
    \A p \in Callers :
        LET c == call[p]
        IN  (Finished(p) /\ c.update = "true")
                => (c.fetches = 1 /\ ~c.memoHit /\ c.fetched # "none")

\* C6 witness: update=true on a FRESH non-empty Store with a live memo
C6_Witness ==
    \E p \in Callers :
        /\ Finished(p)
        /\ call[p].update = "true"
        /\ call[p].memoLive
        /\ ~EmptyRec(call[p].before)
        /\ HeldTs(call[p].before) = now

\* C7: a call with update="auto" invokes the Fetcher exactly when the Store
\* passed is EMPTY or STALE.
C7_AutoFetchesIffEmptyOrStale ==
    \A p \in Callers :
        LET c == call[p]
        IN  (Finished(p) /\ c.op = "getIpList" /\ c.update = "auto")
                => (c.fetches >= 1
                        <=> (EmptyRec(c.before) \/ StaleRec(c.before)))

\* C8: a refresh whose fetch and Store writes succeed returns the validated
\* fetched set and leaves the Store holding that set with the time of the
\* refresh, hence FRESH; a call with update="auto" that follows at once on
\* that Store does not fetch and returns the same set.
C8_SuccessfulRefresh ==
    \A p \in Callers :
        LET c == call[p]
            rec == persistence[c.store]
        IN  /\ (Finished(p) /\ FetchSucceeded(c) /\ c.wrote = "both")
                => /\ c.status = "resolved"
                   /\ c.list = c.valid
                   /\ HeldSet(rec) = c.valid
                   /\ HeldTs(rec) = now
                   /\ FreshRec(rec)
            /\ (Finished(p) /\ c.update = "auto" /\ c.follows # <<>>)
                => /\ c.status = "resolved"
                   /\ c.fetches = 0
                   /\ c.list = c.follows[1].list

\* C8 witness: a call with update="auto" right after a successful refresh of
\* the same Store
C8_Witness ==
    \E p \in Callers :
        /\ Finished(p)
        /\ call[p].update = "auto"
        /\ call[p].follows # <<>>
        /\ call[p].follows[1].store = call[p].store

\* C9: for a non-empty FRESH Store S, isIpTor(a, S) is true exactly when a is
\* a member of the set S holds.
C9_LookupIsMembership ==
    \A p \in Callers :
        LET c == call[p]
        IN  (/\ Finished(p)
             /\ c.op = "isIpTor"
             /\ ~EmptyRec(c.before)
             /\ FreshRec(c.before))
                => (c.status = "resolved"
                    /\ c.answer = (c.ip \in HeldSet(c.before)))

\* C10: isIpTor and amIUsingTor never reject: they resolve to true or false
\* whatever fails.
C10_BooleanOpsNeverReject ==
    \A p \in Callers :
        LET c == call[p]
        IN  (Finished(p) /\ c.op \in {"isIpTor", "amIUsingTor"})
                => (c.status = "resolved" /\ c.answer \in BOOLEAN)

\* C10 witness: amIUsingTor whose address discovery failed, on a file-backed
\* Store whose timestamp file could not be read and whose write failed
\* after a successful fetch
C10_Witness ==
    \E p \in Callers :
        /\ Finished(p)
        /\ call[p].op = "amIUsingTor"
        /\ call[p].ip = Unknown
        /\ ~call[p].before.tsOk
        /\ FetchSucceeded(call[p])
        /\ call[p].wrote # "both"
        /\ call[p].answer = FALSE

\* C11: when two getIpList calls run concurrently against the same STALE
\* Store and both fetch and write, then once both have finished the Store's
\* record is the (set, timestamp) pair written by one of them, never the set
\* of one with the timestamp of the other.
C11_LastWriterWins ==
    \A p, q \in Callers :
        LET c == call[p]
            d == call[q]
            rec == persistence[c.store]
        IN  (/\ p # q
             /\ Finished(p) /\ Finished(q)
             /\ c.store = d.store
             /\ c.before = d.before
             /\ StaleAt(c.before, c.at) /\ StaleAt(d.before, d.at)
             /\ c.wrote = "both" /\ d.wrote = "both")
                => \E w \in {p, q} :
                      /\ HeldSet(rec) = call[w].ipSet
                      /\ HeldTs(rec) = call[w].tsArg

\* C12: when the fetch succeeds but a Store write of the refresh fails, the
\* call does not reject and returns the freshly fetched set or the set the
\* Store held before the refresh.
C12_WriteFailureReturnsFetchedOrStored ==
    \A p \in Callers :
        LET c == call[p]
        IN  (Finished(p) /\ FetchSucceeded(c) /\ c.wrote # "both")
                => /\ c.status = "resolved"
                   /\ c.list = c.valid \/ c.list = HeldSet(c.before)

\* C13: with update="auto", a non-empty Store and no live memo, a record
\* written 24 h + 1 ms before the call triggers a refresh; a record written
\* 24 h - 1 ms, or exactly 24 h, before the call is served without a fetch.
C13_StalenessBoundary ==
    \A p \in Callers :
        LET c == call[p]
            age == c.at - HeldTs(c.before)
        IN  (/\ Finished(p)
             /\ c.op = "getIpList" /\ c.update = "auto"
             /\ ~EmptyRec(c.before)
             /\ ~c.memoLive)
                => /\ age = DAY + 1 => c.fetches = 1 /\ c.fetched # "none"
                   /\ age \in {DAY - 1, DAY}
                        => /\ c.fetches = 0
                           /\ c.status = "resolved"
                           /\ c.list = HeldSet(c.before)

\* C13 witness: a record written exactly 24 h before the call is served
\* without a fetch
C13_Witness ==
    \E p \in Callers :
        /\ Finished(p)
        /\ call[p].update = "auto"
        /\ ~EmptyRec(call[p].before)
        /\ ~call[p].memoLive
        /\ call[p].at - HeldTs(call[p].before) = DAY
        /\ call[p].fetches = 0

\* the lines of the response text of a call
LinesOf(c) == Range(Split(c.data, "\n"))

\* C14: validation filters by line: "999.1.1.1" and "1.2.3" are excluded
\* from the validated set, "1.2.3.4" is included, blank lines are discarded,
\* and an invalid line does not make the fetch fail when another line is
\* valid.
C14_LenientLineFilter ==
    \A p \in Callers :
        LET c == call[p]
        IN  c.fetched = "ok"
                => /\ Bad999 \notin c.ipSet
                   /\ Short123 \notin c.ipSet
                   /\ Blank \notin c.ipSet
                   /\ Ip1234 \in LinesOf(c)
                        => /\ Ip1234 \in c.ipSet
                           /\ FetchSucceeded(c)
                           /\ (Finished(p) /\ c.wrote = "both")
                                => /\ Ip1234 \in c.list
                                   /\ Bad999 \notin c.list
                                   /\ Short123 \notin c.list

\* C14 witness: a response with the lines "999.1.1.1" and "1.2.3.4" was
\* fetched, written and returned
C14_Witness ==
    \E p \in Callers :
        /\ Finished(p)
        /\ call[p].fetched = "ok"
        /\ LinesOf(call[p]) = {Bad999, Ip1234}
        /\ call[p].wrote = "both"
        /\ call[p].list = {Ip1234}

\* the IPv4 dotted-quad grammar: exactly four segments separated by dots,
\* each of decimal digits only and denoting an integer in 0..255
DottedQuad(ip) ==
    LET parts == Split(ip, ".")
    IN  /\ Len(parts) = 4
        /\ \A i \in 1..4 :
              /\ parts[i] # <<>>
              /\ \A k \in 1..Len(parts[i]) : IsDigit(parts[i][k])
              /\ DigitsValue(parts[i], 0, FALSE).num \in 0..255

\* C15: every member of a set that a successful fetch returns and writes to
\* the Store matches the IPv4 dotted-quad grammar; a line with a segment
\* "1x", "4 extra" or "-0" is never a member.
C15_MembersAreDottedQuads ==
    \A p \in Callers :
        LET c == call[p]
        IN  FetchSucceeded(c)
                => /\ \A ip \in c.ipSet : DottedQuad(ip)
                   /\ c.ipSet \cap {Seg1x, SegExtra, SegNegZero} = {}
                   /\ c.wrote # "none"
                        => \A ip \in HeldSet(persistence[c.store]) :
                              DottedQuad(ip)

\* C16: getTimestamp of every Store never raises and returns the stored
\* timestamp, or 0 when the timestamp is absent or unreadable or the file is
\* empty or holds no decimal text; the value is an integer >= 0, and a Store
\* for which it is 0 is refreshed by a call with update="auto".
C16_TimestampOrZero ==
    \A p \in Callers :
        LET c == call[p]
        IN  (/\ c.update = "auto"
             /\ c.pc \notin {"idle", "getIpAddress", "getTimestamp"})
                => /\ c.status # "rejected"
                   /\ c.timestamp = Num(HeldTs(c.before))
                   /\ ~c.timestamp.nan /\ c.timestamp.num >= 0
                   /\ HeldTs(c.before) = 0 => c.shouldUpdate

\* C17: for both kinds of Store and every set s of valid IPv4 address
\* strings, the empty set included, saveIpList(s) followed by getIpList()
\* yields a set equal to s, whatever the order of the members.
C17_StoreRoundTrip ==
    \A p \in Callers :
        LET c == call[p]
        IN  (c.op = "store" /\ c.prev = "save" /\ c.last = "get")
                => c.mine = c.saved[1]

\* C17 witness: the file-backed Store returned the two addresses it was
\* passed
C17_Witness ==
    \E p \in Callers :
        /\ call[p].op = "store"
        /\ Kind(call[p].store) = "FileSystemPersistence"
        /\ call[p].prev = "save" /\ call[p].last = "get"
        /\ call[p].saved = <<{Ip1, Ip2}>>
        /\ call[p].mine = {Ip1, Ip2}

\* C18: a caller that changes the Set that getIpList() of an
\* InMemoryPersistence returned, or a Set it has passed to saveIpList(),
\* does not change what a later getIpList() of that Store returns.
C18_NoAliasing ==
    \A p \in Callers :
        LET c == call[p]
        IN  (/\ c.op = "store"
             /\ Kind(c.store) = "InMemoryPersistence"
             /\ c.saved # <<>>
             /\ c.mutated
             /\ c.last = "get")
                => c.mine = c.saved[1]

\* C18 witness: the caller changed the Set that getIpList() returned and
\* called getIpList() again
C18_Witness ==
    \E p \in Callers :
        /\ call[p].op = "store"
        /\ Kind(call[p].store) = "InMemoryPersistence"
        /\ call[p].saved # <<>> /\ call[p].saved[1] # {}
        /\ call[p].mutated
        /\ call[p].prev = "mutate" /\ call[p].last = "get"
        /\ events = MaxUses

\* C19: two successive getIpList calls with update=false on the same Store,
\* with no Store write between them, return identical sets, in every Store
\* state and whatever time passed between them.
C19_UpdateFalseIdempotent ==
    \A p \in Callers :
        LET c == call[p]
        IN  (/\ Finished(p)
             /\ c.op = "getIpList" /\ c.update = "false"
             /\ c.prior # <<>>)
                => (c.status = "resolved" /\ c.list = c.prior[1].list)

\* C20: the list fetch is bounded by its timeout: while a call waits for the
\* publisher, for the response or in the middle of the body, the 10-second
\* timer that aborts the fetch is pending.
C20_TimerBoundsFetch ==
    \A p \in Callers :
        call[p].pc \in {"fetch", "text"} => call[p].timer = "pending"

\* C20, as a property of behaviours: every call that starts a fetch
\* eventually finishes, whatever the publisher does.
C20_FetchEventuallyFinishes ==
    \A p \in SeqCallers : (call[p].pc = "fetch") ~> (call[p].pc = "done")

\* the override URLs of the model that are no URLs
Malformed(url) == url \in {NotUrl, NoScheme, NoHost}

C22_OneFetchNoBackgroundWork ==
    [][\A p \in Callers :
          /\ call'[p].fetches <= 1
          /\ call'[p].fetches > call[p].fetches => call[p].pc = "readList"
          /\ FetchFailed(call[p]) => call'[p].pc \in {"done", "idle"}
          /\ ( /\ \A q \in Callers : call[q].pc \in {"done", "idle"}
               /\ persistence' # persistence ) => events' = events + 1
      ]_vars

\* a call whose only fetch failed has settled
C22_Witness ==
    \E p \in Callers :
        /\ call[p].op = "getIpList"
        /\ call[p].pc = "done"
        /\ call[p].fetches = 1
        /\ FetchFailed(call[p])
        /\ call[p].status = "resolved"

\* what a Store record holds as its timestamp
TimestampOf(rec) ==
    IF OfFiles(rec) THEN <<rec.tsOk, rec.ts>> ELSE <<TRUE, rec.ts>>

\* C23: within one refresh saveTimestamp is called only after saveIpList of
\* that refresh succeeded.  A running call changes the timestamp of its
\* Store only in its saveTimestamp step, and then the Store holds the
\* non-empty validated set the call has just written; the step that ends
\* saveIpList, failed or not, leaves the timestamp as it was.
C23_TimestampOnlyAfterList ==
    [][\A p \in Callers :
          LET c == call[p]
              s == c.store
          IN  /\ (c.pc # "saveTimestamp" /\ call'[p].pc = "saveTimestamp") =>
                    /\ c.pc = "saveIpList"
                    /\ call'[p].wrote = "list"
                    /\ c.valid # {}
                    /\ HeldSet(persistence'[s]) = c.valid
              /\ ( /\ c.pc \notin {"idle", "done", "use"}
                   /\ TimestampOf(persistence'[s]) # TimestampOf(persistence[s])
                 ) =>
                    /\ c.pc = "saveTimestamp"
                    /\ c.wrote = "list"
                    /\ c.valid # {}
                    /\ HeldSet(persistence[s]) = c.valid
              /\ c.pc = "saveIpList" =>
                    TimestampOf(persistence'[s]) = TimestampOf(persistence[s])
      ]_vars

\* a refresh whose saveIpList failed has ended; the timestamp is the one the
\* Store had when the call began
C23_Witness ==
    \E p \in Callers :
        /\ call[p].pc = "done"
        /\ FetchSucceeded(call[p])
        /\ call[p].wrote = "none"
        /\ TimestampOf(persistence[call[p].store]) = TimestampOf(call[p].before)

\* C24: a caller that changes the Set a getIpList call returned does not
\* change the result of a later call.  While the caller whose call stored
\* the memo holds its Set, a call served from the memo returns, and
\* answers from, the set as that call returned it, and the Set given to a
\* caller that has not changed it still has the members it was returned with.
C24_MutationStaysWithCaller ==
    \A p, q \in Callers :
        ( /\ p # q
          /\ call[p].pc = "done" /\ call[p].isMemo /\ ~call[p].memoHit
          /\ call[q].pc = "done" /\ call[q].isMemo /\ call[q].memoHit ) =>
            /\ call[q].list = call[p].list
            /\ call[q].op # "getIpList" =>
                  call[q].answer = (call[q].ip \in call[p].list)
            /\ (call[q].op = "getIpList" /\ ~call[q].mutated) =>
                  call[q].mine = call[q].list

====
